---- MODULE Spec2Model ----
(***************************************************************************)
(* xcc-roman-number-converter: Roman <-> Arabic conversion, input          *)
(* validation and the Redis cache-lookaside wrapper.                       *)
(*                                                                         *)
(* Python strings are sequences of one-character strings; Python values    *)
(* are records tagged with their type.                                     *)
(***************************************************************************)
EXTENDS Integers, Sequences, FiniteSets, TLC

VARIABLES
    \* ---- conversion algorithms (converter.py) ----
    stage,          \* position of the run under study
    n,              \* the Arabic number handed to convert_to_roman
    roman,          \* result of convert_to_roman
    arabic,         \* result of convert_to_arabic on that result
    \* ---- input construction (numbersx.py) ----
    raw,            \* the raw argument handed to the constructor
    obj,            \* the constructed object's .number
    err,            \* exception raised by the constructor, "none" if none
    \* ---- one process of the command-line program (cache.py, cli.py) ----
    CACHE_ENABLED,          \* os.getenv("CACHE_ENABLED", "False")
    cache,                  \* cache.py's module-level instance: "None" or "RedisCache"
    client,                 \* cache.client: "None" or "Redis"
    global_cache_enabled,   \* cli.py's _global_cache_enabled
    current_cache,          \* cli.py's _current_cache: "None" or "cache"
    \* ---- the store, shared by all processes ----
    db,                     \* key -> [text, expire]
    \* ---- the last command run ----
    input,          \* the validated input value, None if there is none
    result,         \* what the command obtained as converter.output
    raised,         \* the exception that escaped the command, "none" if none
    calls           \* the cache method calls and algorithm runs it made, in order

convVars  == <<n, roman, arabic>>
inputVars == <<raw, obj, err>>
procVars  == <<CACHE_ENABLED, cache, client, global_cache_enabled, current_cache>>
lastVars  == <<input, result, raised, calls>>
vars == <<stage, n, roman, arabic, raw, obj, err, CACHE_ENABLED, cache, client,
          global_cache_enabled, current_cache, db, input, result, raised, calls>>

(***************************************************************************)
(* Python values                                                           *)
(***************************************************************************)
None      == [t |-> "None"]
PyInt(i)  == [t |-> "int", v |-> i]
PyStr(s)  == [t |-> "str", v |-> s]
\* a float with one binary digit: twice/2
PyFloat(h) == [t |-> "float", twice |-> h]
PyBool(b) == [t |-> "bool", v |-> b]
\* a list of store keys; KEYS replies in no particular order, so the list is
\* kept as the set of its elements
PyList(S) == [t |-> "list", v |-> S]

(***************************************************************************)
(* config.py: the symbol tables                                            *)
(***************************************************************************)
ROMAN_TO_ARABIC ==
    ("I" :> 1) @@ ("V" :> 5) @@ ("X" :> 10) @@ ("L" :> 50) @@ ("C" :> 100) @@
    ("D" :> 500) @@ ("M" :> 1000) @@ ("_V" :> 5000) @@ ("_X" :> 10000) @@
    ("_L" :> 50000) @@ ("_C" :> 100000) @@ ("_D" :> 500000) @@ ("_M" :> 1000000)

\* the table without its subtractive entries (the commented-out inversion of
\* ROMAN_TO_ARABIC at converter.py:15, restricted to the letters in use)
ARABIC_TO_ROMAN_additive ==
    (1 :> <<"I">>) @@ (5 :> <<"V">>) @@ (10 :> <<"X">>) @@ (50 :> <<"L">>) @@
    (100 :> <<"C">>) @@ (500 :> <<"D">>) @@ (1000 :> <<"M">>)

ARABIC_TO_ROMAN ==
    (1 :> <<"I">>) @@ (4 :> <<"I", "V">>) @@ (5 :> <<"V">>) @@ (9 :> <<"I", "X">>) @@
    (10 :> <<"X">>) @@ (40 :> <<"X", "L">>) @@ (50 :> <<"L">>) @@ (90 :> <<"X", "C">>) @@
    (100 :> <<"C">>) @@ (400 :> <<"C", "D">>) @@ (500 :> <<"D">>) @@
    (900 :> <<"C", "M">>) @@ (1000 :> <<"M">>)

(***************************************************************************)
(* converter.py: convert_to_arabic                                         *)
(***************************************************************************)
\* self.roman_to_arabic.get(char, 0)
roman_to_arabic_get(char) ==
    IF char \in DOMAIN ROMAN_TO_ARABIC THEN ROMAN_TO_ARABIC[char] ELSE 0

Subtracts_le(value, prev_value) == value <= prev_value

\* the branch condition of the scan: if value < prev_value
Subtracts(value, prev_value) == value < prev_value

\* for char in reversed(input_number): i runs from Len down to 1
RECURSIVE ScanReversed(_, _, _, _)
ScanReversed(input_number, i, output, prev_value) ==
    IF i = 0 THEN output
    ELSE LET value == roman_to_arabic_get(input_number[i])
         IN  IF Subtracts(value, prev_value)
             THEN ScanReversed(input_number, i - 1, output - value, value)
             ELSE ScanReversed(input_number, i - 1, output + value, value)

convert_to_arabic(input_number) ==
    ScanReversed(input_number, Len(input_number), 0, 0)

(***************************************************************************)
(* converter.py: convert_to_roman                                          *)
(***************************************************************************)
SetMax(S) == CHOOSE m \in S : \A x \in S : x <= m

\* sorted(self.arabic_to_roman.items(), key=lambda x: x[0], reverse=True)
RECURSIVE SortedReverse(_)
SortedReverse(S) ==
    IF S = {} THEN <<>>
    ELSE LET m == SetMax(S) IN <<m>> \o SortedReverse(S \ {m})

\* the loop with an if in place of the while: each item is taken at most once
RECURSIVE GreedyLoop_if(_, _, _, _)
GreedyLoop_if(items, k, input_number, roman_numerals) ==
    IF k > Len(items)
    THEN [roman_numerals |-> roman_numerals, input_number |-> input_number]
    ELSE IF input_number >= items[k]
         THEN GreedyLoop_if(items, k + 1, input_number - items[k],
                            Append(roman_numerals, ARABIC_TO_ROMAN[items[k]]))
         ELSE GreedyLoop_if(items, k + 1, input_number, roman_numerals)

\* the for loop over the sorted items with its inner while loop; k is the
\* position in the sorted items, roman_numerals the list of appended tokens
RECURSIVE GreedyLoop(_, _, _, _)
GreedyLoop(items, k, input_number, roman_numerals) ==
    IF k > Len(items)
    THEN [roman_numerals |-> roman_numerals, input_number |-> input_number]
    ELSE IF input_number >= items[k]
         THEN GreedyLoop(items, k, input_number - items[k],
                         Append(roman_numerals, ARABIC_TO_ROMAN[items[k]]))
         ELSE GreedyLoop(items, k + 1, input_number, roman_numerals)

\* ''.join(roman_numerals)
RECURSIVE Join(_)
Join(tokens) ==
    IF tokens = <<>> THEN <<>> ELSE Head(tokens) \o Join(Tail(tokens))

\* the sorted items of the table, the same on every call
SortedItems == SortedReverse(DOMAIN ARABIC_TO_ROMAN)

GreedyResult(input_number) == GreedyLoop(SortedItems, 1, input_number, <<>>)

convert_to_roman(input_number) ==
    Join(GreedyResult(input_number).roman_numerals)

(***************************************************************************)
(* numbersx.py: RomanNumber                                                *)
(***************************************************************************)
\* str.upper() on the characters the model draws
UpperChar(c) ==
    CASE c = "i" -> "I"
      [] c = "v" -> "V"
      [] c = "x" -> "X"
      [] c = "l" -> "L"
      [] c = "c" -> "C"
      [] c = "d" -> "D"
      [] c = "m" -> "M"
      [] c = "a" -> "A"
      [] OTHER   -> c

upper(s) == [i \in 1..Len(s) |-> UpperChar(s[i])]

\* regex pieces: each takes the set P of positions (number of characters
\* consumed so far) the match may stand at and gives the positions it may
\* stand at after the piece
Lit(s, P, w) ==
    { p + Len(w) : p \in { q \in P : /\ q + Len(w) <= Len(s)
                                     /\ \A j \in 1..Len(w) : s[q + j] = w[j] } }

\* c{lo,hi}
Rep(s, P, c, lo, hi) ==
    UNION { { p + k : k \in { m \in lo..hi : /\ p + m <= Len(s)
                                             /\ \A j \in 1..m : s[p + j] = c } }
            : p \in P }

\* (nine|four|five?one{0,3})
PlaceGroup(s, P, nine, four, five, one) ==
    Lit(s, P, nine) \cup Lit(s, P, four) \cup Rep(s, Rep(s, P, five, 0, 1), one, 0, 3)

\* $ : at the end of the string, or just before a newline that ends it
DollarAnchor(s, p) ==
    \/ p = Len(s)
    \/ p = Len(s) - 1 /\ s[Len(s)] = "\n"

\* re.match(roman_pattern, roman): anchored at position 0
is_valid_roman(s) ==
    LET thousands == Rep(s, {0}, "M", 0, 3)
        hundreds  == PlaceGroup(s, thousands, <<"C", "M">>, <<"C", "D">>, "D", "C")
        tens      == PlaceGroup(s, hundreds, <<"X", "C">>, <<"X", "L">>, "L", "X")
        units     == PlaceGroup(s, tens, <<"I", "X">>, <<"I", "V">>, "V", "I")
    IN  \E p \in units : DollarAnchor(s, p)

\* validation of the upper-cased string without storing it
RomanNumber_as_given(number) ==
    IF is_valid_roman(upper(number))
    THEN [number |-> number, exc |-> "none"]
    ELSE [number |-> number, exc |-> "ValueError"]

\* RomanNumber.__post_init__: the stored number and the exception raised
RomanNumber(number) ==
    LET up == upper(number)
    IN  IF is_valid_roman(up)
        THEN [number |-> up, exc |-> "none"]
        ELSE [number |-> up, exc |-> "ValueError"]

(***************************************************************************)
(* numbersx.py: ArabicNumber                                               *)
(***************************************************************************)
MaxArabic == 3999
MinArabic == 1

\* int(x): an int is kept, a float is truncated toward zero
int(x) ==
    IF x.t = "int" THEN x.v
    ELSE IF x.twice >= 0 THEN x.twice \div 2 ELSE -((-x.twice) \div 2)

TooLarge_ge(number) == number >= MaxArabic

\* if self.number > 3999
TooLarge(number) == number > MaxArabic

\* if self.number < 1
TooSmall(number) == number < MinArabic

\* ArabicNumber.__post_init__
ArabicNumber(number) ==
    LET i == int(number)
    IN  IF TooSmall(i) \/ TooLarge(i)
        THEN [number |-> i, exc |-> "ValueError"]
        ELSE [number |-> i, exc |-> "none"]

(***************************************************************************)
(* Text helpers: str(int), json.dumps, json.loads                          *)
(***************************************************************************)
DigitChars == <<"0", "1", "2", "3", "4", "5", "6", "7", "8", "9">>

DigitValue(c) == (CHOOSE d \in 1..10 : DigitChars[d] = c) - 1

IsDigit(c) == \E d \in 1..10 : DigitChars[d] = c

\* str(i) of an int
RECURSIVE str_nat(_)
str_nat(i) ==
    IF i < 10 THEN <<DigitChars[i + 1]>>
    ELSE str_nat(i \div 10) \o <<DigitChars[(i % 10) + 1]>>

str_int(i) == IF i < 0 THEN <<"-">> \o str_nat(-i) ELSE str_nat(i)

\* str(self.input.number)
str(x) == IF x.t = "int" THEN str_int(x.v) ELSE x.v

RECURSIVE nat_of(_, _)
nat_of(digits, acc) ==
    IF digits = <<>> THEN acc
    ELSE nat_of(Tail(digits), 10 * acc + DigitValue(Head(digits)))

\* json.dumps escapes the quote, the backslash and the newline
RECURSIVE json_escape(_)
json_escape(s) ==
    IF s = <<>> THEN <<>>
    ELSE LET c == Head(s)
         IN  (CASE c = "\"" -> <<"\\", "\"">>
                [] c = "\\" -> <<"\\", "\\">>
                [] c = "\n" -> <<"\\", "n">>
                [] OTHER   -> <<c>>) \o json_escape(Tail(s))

\* json.dumps(value) for the str and int values the converter produces
json_dumps(value) ==
    IF value.t = "int" THEN str_int(value.v)
    ELSE <<"\"">> \o json_escape(value.v) \o <<"\"">>

\* the body of a JSON string literal: [ok, v]
RECURSIVE json_unescape(_)
json_unescape(s) ==
    IF s = <<>> THEN [ok |-> TRUE, v |-> <<>>]
    ELSE IF Head(s) = "\\"
         THEN IF Len(s) >= 2 /\ s[2] \in {"\"", "\\", "n"}
              THEN LET rest == json_unescape(Tail(Tail(s)))
                       c == IF s[2] = "n" THEN "\n" ELSE s[2]
                   IN  [ok |-> rest.ok, v |-> <<c>> \o rest.v]
              ELSE [ok |-> FALSE, v |-> <<>>]
         ELSE IF Head(s) \in {"\"", "\n"}
              THEN [ok |-> FALSE, v |-> <<>>]
              ELSE LET rest == json_unescape(Tail(s))
                   IN  [ok |-> rest.ok, v |-> <<Head(s)>> \o rest.v]

IsJsonNat(text) ==
    /\ Len(text) >= 1
    /\ \A i \in 1..Len(text) : IsDigit(text[i])
    /\ Len(text) > 1 => text[1] # "0"

JSONDecodeError == [t |-> "JSONDecodeError"]

\* json.loads(text) on scalar documents: an integer, a string literal or
\* null; any other text the model's store holds is not JSON at all
json_loads(text) ==
    IF IsJsonNat(text) THEN PyInt(nat_of(text, 0))
    ELSE IF Len(text) >= 2 /\ text[1] = "-" /\ IsJsonNat(Tail(text))
    THEN PyInt(-nat_of(Tail(text), 0))
    ELSE IF Len(text) >= 2 /\ text[1] = "\"" /\ text[Len(text)] = "\""
    THEN LET body == json_unescape(SubSeq(text, 2, Len(text) - 1))
         IN  IF body.ok THEN PyStr(body.v) ELSE JSONDecodeError
    ELSE IF text = <<"n", "u", "l", "l">> THEN None
    ELSE JSONDecodeError

\* Python truth value of the values above
Truthy(x) ==
    CASE x.t = "None" -> FALSE
      [] x.t = "int"  -> x.v # 0
      [] x.t = "str"  -> x.v # <<>>
      [] OTHER        -> TRUE

(***************************************************************************)
(* cache.py: RedisCache                                                    *)
(***************************************************************************)
\* os.getenv("CACHE_ENABLED", "False").lower() in ("true", "1", "yes", "on")
CacheEnabledInEnv(value) == value \in {"true", "1", "yes", "on"}

\* cli.py:16 accepts one word fewer
CliEnabledInEnv(value) == value \in {"true", "1", "yes"}

\* the names the standard json module defines, as far as handlers name them
JsonModuleNames == {"JSONDecodeError", "JSONDecoder", "JSONEncoder", "loads", "dumps"}

\* evaluating the tuple of an except clause: a name json does not define
\* raises AttributeError in place of the exception being handled
ExceptClause(json_names, handled) ==
    IF json_names \subseteq JsonModuleNames THEN "none" ELSE "AttributeError"

Entry(op, res, val) == [op |-> op, res |-> res, val |-> val]

\* RedisCache._connect: the client after the attempt
_connect(outcome) == IF outcome = "ok" THEN "Redis" ELSE "None"

\* a connectivity check that tries the store again without a client handle
is_connected_retrying(cl, ping) ==
    CASE ping = "ok" -> [ret |-> TRUE, client |-> "Redis"]
      [] ping = "ConnectionError" -> [ret |-> FALSE, client |-> "None"]
      [] OTHER -> [ret |-> FALSE, client |-> cl]

\* RedisCache.is_connected with the outcome of its PING
is_connected(cl, ping) ==
    IF cl = "None" THEN [ret |-> FALSE, client |-> "None"]
    ELSE CASE ping = "ok" -> [ret |-> TRUE, client |-> cl]
           [] ping = "ConnectionError" -> [ret |-> FALSE, client |-> "None"]
           [] OTHER -> [ret |-> FALSE, client |-> cl]

\* RedisCache.get with the outcomes of its PING and its GET
RedisCache_get(cl, store, key, ping, read) ==
    LET c == is_connected(cl, ping)
    IN  IF ~c.ret
        THEN [ret |-> None, client |-> c.client, exc |-> "none",
              log |-> Entry("get", "unconnected", None)]
        ELSE IF read # "ok"
        THEN [ret |-> None, client |-> c.client,
              exc |-> ExceptClause({"JSONDecodeError"}, read),
              log |-> Entry("get", read, None)]
        ELSE IF key \in DOMAIN store /\ store[key].text # <<>>
        THEN LET parsed_value == json_loads(store[key].text)
             IN  IF parsed_value = JSONDecodeError
                 THEN [ret |-> None, client |-> c.client,
                       exc |-> ExceptClause({"JSONDecodeError"}, "JSONDecodeError"),
                       log |-> Entry("get", "JSONDecodeError", None)]
                 ELSE [ret |-> parsed_value, client |-> c.client, exc |-> "none",
                       log |-> Entry("get", "hit", parsed_value)]
        ELSE [ret |-> None, client |-> c.client, exc |-> "none",
              log |-> Entry("get", "miss", None)]

\* the store with key set to text, with or without a time to live
Put(store, key, text, expire) ==
    [k \in DOMAIN store \cup {key} |->
        IF k = key THEN [text |-> text, expire |-> expire] ELSE store[k]]

\* RedisCache.set with the outcomes of its PING and its SET / SETEX
RedisCache_set(cl, store, key, value, expire, ping, write) ==
    LET c == is_connected(cl, ping)
    IN  IF ~c.ret
        THEN [ret |-> FALSE, client |-> c.client, db |-> store, exc |-> "none",
              log |-> Entry("set", "unconnected", value)]
        ELSE IF value = None
        THEN [ret |-> FALSE, client |-> c.client, db |-> store, exc |-> "none",
              log |-> Entry("set", "none_value", value)]
        ELSE IF write # "ok"
        THEN [ret |-> FALSE, client |-> c.client, db |-> store,
              exc |-> ExceptClause({"JSONEncodeError"}, write),
              log |-> Entry("set", write, value)]
        ELSE [ret |-> TRUE, client |-> c.client,
              db |-> Put(store, key, json_dumps(value),
                         IF expire = None \/ expire = PyInt(0) THEN None ELSE expire),
              exc |-> "none",
              log |-> Entry("set", "ok", value)]

\* the PING a call of is_connected sends: none without a client handle
Pings(cl, ping) == IF cl = "None" THEN <<>> ELSE <<Entry("PING", ping, None)>>

\* the store without key
Remove(store, key) ==
    IF DOMAIN store \ {key} = {} THEN <<>>
    ELSE [k \in DOMAIN store \ {key} |-> store[k]]

\* RedisCache.delete without its connectivity guard
RedisCache_delete_unguarded(cl, store, key, ping, del) ==
    IF cl = "None"
    THEN [ret |-> None, client |-> cl, db |-> store, exc |-> "AttributeError",
          sent |-> <<>>]
    ELSE IF del # "ok"
    THEN [ret |-> PyBool(FALSE), client |-> cl, db |-> store, exc |-> "none",
          sent |-> <<Entry("DEL", del, None)>>]
    ELSE [ret |-> PyBool(key \in DOMAIN store), client |-> cl,
          db |-> Remove(store, key), exc |-> "none",
          sent |-> <<Entry("DEL", del, None)>>]

\* RedisCache.delete with the outcomes of its PING and its DEL; sent lists the
\* commands that went to the store
RedisCache_delete(cl, store, key, ping, del) ==
    LET c == is_connected(cl, ping)
    IN  IF ~c.ret
        THEN [ret |-> PyBool(FALSE), client |-> c.client, db |-> store,
              exc |-> "none", sent |-> Pings(cl, ping)]
        ELSE IF del # "ok"
        THEN [ret |-> PyBool(FALSE), client |-> c.client, db |-> store,
              exc |-> ExceptClause({}, del),
              sent |-> Pings(cl, ping) \o <<Entry("DEL", del, None)>>]
        ELSE [ret |-> PyBool(key \in DOMAIN store), client |-> c.client,
              db |-> Remove(store, key), exc |-> "none",
              sent |-> Pings(cl, ping) \o <<Entry("DEL", del, None)>>]

\* RedisCache.clear with the outcomes of its PING and its FLUSHDB
RedisCache_clear(cl, store, ping, flushdb) ==
    LET c == is_connected(cl, ping)
    IN  IF ~c.ret
        THEN [ret |-> PyBool(FALSE), client |-> c.client, db |-> store,
              exc |-> "none", sent |-> Pings(cl, ping)]
        ELSE IF flushdb # "ok"
        THEN [ret |-> PyBool(FALSE), client |-> c.client, db |-> store,
              exc |-> ExceptClause({}, flushdb),
              sent |-> Pings(cl, ping) \o <<Entry("FLUSHDB", flushdb, None)>>]
        ELSE [ret |-> PyBool(TRUE), client |-> c.client, db |-> <<>>,
              exc |-> "none",
              sent |-> Pings(cl, ping) \o <<Entry("FLUSHDB", flushdb, None)>>]

\* the glob matching of KEYS, for patterns of literal characters and *
RECURSIVE GlobMatch(_, _)
GlobMatch(pattern, key) ==
    IF pattern = <<>> THEN key = <<>>
    ELSE IF Head(pattern) = "*"
    THEN GlobMatch(Tail(pattern), key)
         \/ (key # <<>> /\ GlobMatch(pattern, Tail(key)))
    ELSE key # <<>> /\ Head(key) = Head(pattern)
         /\ GlobMatch(Tail(pattern), Tail(key))

\* RedisCache.get_keys with the outcomes of its PING and its KEYS
get_keys(cl, store, pattern, ping, keys) ==
    LET c == is_connected(cl, ping)
    IN  IF ~c.ret
        THEN [ret |-> PyList({}), client |-> c.client, db |-> store,
              exc |-> "none", sent |-> Pings(cl, ping)]
        ELSE IF keys # "ok"
        THEN [ret |-> PyList({}), client |-> c.client, db |-> store,
              exc |-> ExceptClause({}, keys),
              sent |-> Pings(cl, ping) \o <<Entry("KEYS", keys, None)>>]
        ELSE [ret |-> PyList({ k \in DOMAIN store : GlobMatch(pattern, k) }),
              client |-> c.client, db |-> store, exc |-> "none",
              sent |-> Pings(cl, ping) \o <<Entry("KEYS", keys, None)>>]

\* RedisCache.get_key_count with the outcomes of its PING and its DBSIZE
get_key_count(cl, store, ping, dbsize) ==
    LET c == is_connected(cl, ping)
    IN  IF ~c.ret
        THEN [ret |-> PyInt(0), client |-> c.client, db |-> store,
              exc |-> "none", sent |-> Pings(cl, ping)]
        ELSE IF dbsize # "ok"
        THEN [ret |-> PyInt(0), client |-> c.client, db |-> store,
              exc |-> ExceptClause({}, dbsize),
              sent |-> Pings(cl, ping) \o <<Entry("DBSIZE", dbsize, None)>>]
        ELSE [ret |-> PyInt(Cardinality(DOMAIN store)), client |-> c.client,
              db |-> store, exc |-> "none",
              sent |-> Pings(cl, ping) \o <<Entry("DBSIZE", dbsize, None)>>]

\* RedisCache.reconnect: _connect with the outcome of its PING, then
\* is_connected with the outcome of its own
reconnect(cl, connect, ping) ==
    LET c == is_connected(_connect(connect), ping)
    IN  [ret |-> PyBool(c.ret), client |-> c.client,
         sent |-> <<Entry("PING", connect, None)>> \o Pings(_connect(connect), ping)]

(***************************************************************************)
(* converter.py: Converter                                                 *)
(***************************************************************************)
LowerChar(c) ==
    CASE c = "R" -> "r" [] c = "N" -> "n" [] c = "A" -> "a" [] OTHER -> c

lower(s) == [i \in 1..Len(s) |-> LowerChar(s[i])]

\* type(self.input).__name__
TypeName(cls) ==
    IF cls = "RomanNumber"
    THEN <<"R", "o", "m", "a", "n", "N", "u", "m", "b", "e", "r">>
    ELSE <<"A", "r", "a", "b", "i", "c", "N", "u", "m", "b", "e", "r">>

\* a key made of the namespace and the type name alone
_generate_redis_cache_key_of_type(inp) ==
    <<"e", "a", "s", "y", "c", "o", "n", "v", "e", "r", "t", ":">>
        \o lower(TypeName(inp.cls)) \o <<":">>

\* Converter._generate_redis_cache_key
_generate_redis_cache_key(inp) ==
    <<"e", "a", "s", "y", "c", "o", "n", "v", "e", "r", "t", ":">>
        \o lower(TypeName(inp.cls)) \o <<":">> \o str(inp.number)

\* the branch of __init__ that picks the algorithm
Convert(inp) ==
    IF inp.cls = "RomanNumber"
    THEN [name |-> "convert_to_arabic", out |-> PyInt(convert_to_arabic(inp.number.v))]
    ELSE [name |-> "convert_to_roman", out |-> PyStr(convert_to_roman(inp.number.v))]

\* if cached_value:
IsHit(cached_value) == Truthy(cached_value)

\* Converter.__init__ on the module-level cache, with the outcomes f of the
\* store round trips it makes.  out is what the caller reads as
\* converter.output: None when the constructor raised.
Converter(cacheobj, cl, store, inp, f) ==
    IF cacheobj = "None"
    THEN [out |-> None, exc |-> "AttributeError", client |-> cl, db |-> store,
          log |-> <<>>]
    ELSE LET cache_key == _generate_redis_cache_key(inp)
             g == RedisCache_get(cl, store, cache_key, f.ping1, f.read)
         IN  IF g.exc # "none"
             THEN [out |-> None, exc |-> g.exc, client |-> g.client, db |-> store,
                   log |-> <<g.log>>]
             ELSE IF IsHit(g.ret)
             THEN [out |-> g.ret, exc |-> "none", client |-> g.client, db |-> store,
                   log |-> <<g.log>>]
             ELSE LET conv == Convert(inp)
                      s == RedisCache_set(g.client, store, cache_key, conv.out, None,
                                          f.ping2, f.write)
                  IN  [out |-> IF s.exc = "none" THEN conv.out ELSE None,
                       exc |-> s.exc, client |-> s.client, db |-> s.db,
                       log |-> <<g.log, Entry(conv.name, "ok", conv.out), s.log>>]

(***************************************************************************)
(* Bounds of the model                                                     *)
(***************************************************************************)
\* longest raw string handed to RomanNumber
MaxLen == 4
\* how far beyond [1, 3999] the raw numbers handed to ArabicNumber reach
MaxOver == 3
\* longest raw string and largest raw number of the pairs of inputs whose
\* cache keys are compared
MaxKeyLen == 3
MaxKeyInt == 20

Alphabet == {"I", "V", "X", "L", "C", "D", "M", "i", "A", "\n"}

RawStrings == UNION { [1..k -> Alphabet] : k \in 0..MaxLen }

RawInts == { PyInt(i) : i \in (MinArabic - MaxOver)..(MaxArabic + MaxOver) }

\* floats at the half steps around both ends of the range
RawFloats ==
    { PyFloat(h) : h \in { 2 * i + 1 : i \in (MinArabic - MaxOver - 1)..(MinArabic + MaxOver) } }
    \cup
    { PyFloat(h) : h \in { 2 * i + 1 : i \in (MaxArabic - MaxOver - 1)..(MaxArabic + MaxOver) } }

(***************************************************************************)
(* SpecConv: the two conversion algorithms on every supported number       *)
(***************************************************************************)
InputIdle == raw = None /\ obj = None /\ err = "none"
ConvIdle  == n = 0 /\ roman = <<>> /\ arabic = 0
\* no process, an empty store, no command run yet
WrapperIdle ==
    /\ CACHE_ENABLED = "False"
    /\ cache = "None"
    /\ client = "None"
    /\ global_cache_enabled = FALSE
    /\ current_cache = "None"
    /\ db = <<>>
    /\ input = None
    /\ result = None
    /\ raised = "none"
    /\ calls = <<>>
wrapperVars == <<CACHE_ENABLED, cache, client, global_cache_enabled, current_cache,
                 db, input, result, raised, calls>>

InitConv ==
    /\ stage = "number"
    /\ n \in MinArabic..MaxArabic
    /\ roman = <<>>
    /\ arabic = 0
    /\ InputIdle
    /\ WrapperIdle

RunToRoman ==
    /\ stage = "number"
    /\ roman' = convert_to_roman(n)
    /\ stage' = "roman"
    /\ UNCHANGED <<n, arabic>>
    /\ UNCHANGED inputVars
    /\ UNCHANGED wrapperVars

RunToArabic ==
    /\ stage = "roman"
    /\ arabic' = convert_to_arabic(roman)
    /\ stage' = "arabic"
    /\ UNCHANGED <<n, roman>>
    /\ UNCHANGED inputVars
    /\ UNCHANGED wrapperVars

NextConv == RunToRoman \/ RunToArabic

SpecConv == InitConv /\ [][NextConv]_vars

(***************************************************************************)
(* SpecRoman / SpecArabic: construction of the two input values            *)
(***************************************************************************)
InitRoman ==
    /\ stage = "raw"
    /\ raw \in { PyStr(s) : s \in RawStrings }
    /\ obj = None
    /\ err = "none"
    /\ ConvIdle
    /\ WrapperIdle

ConstructRoman ==
    /\ stage = "raw"
    /\ LET r == RomanNumber(raw.v)
       IN  /\ obj' = IF r.exc = "none" THEN PyStr(r.number) ELSE None
           /\ err' = r.exc
    /\ stage' = "constructed"
    /\ UNCHANGED raw
    /\ UNCHANGED convVars
    /\ UNCHANGED wrapperVars

\* the conversion the roman command runs on the accepted value
ConvertAccepted ==
    /\ stage = "constructed"
    /\ err = "none"
    /\ arabic' = convert_to_arabic(obj.v)
    /\ stage' = "converted"
    /\ UNCHANGED <<n, roman>>
    /\ UNCHANGED inputVars
    /\ UNCHANGED wrapperVars

NextRoman == ConstructRoman \/ ConvertAccepted

SpecRoman == InitRoman /\ [][NextRoman]_vars

InitArabic ==
    /\ stage = "raw"
    /\ raw \in RawInts \cup RawFloats
    /\ obj = None
    /\ err = "none"
    /\ ConvIdle
    /\ WrapperIdle

ConstructArabic ==
    /\ stage = "raw"
    /\ LET r == ArabicNumber(raw)
       IN  /\ obj' = IF r.exc = "none" THEN PyInt(r.number) ELSE None
           /\ err' = r.exc
    /\ stage' = "constructed"
    /\ UNCHANGED raw
    /\ UNCHANGED convVars
    /\ UNCHANGED wrapperVars

NextArabic == ConstructArabic

SpecArabic == InitArabic /\ [][NextArabic]_vars

(***************************************************************************)
(* Spec: processes of the command-line program against the shared store    *)
(***************************************************************************)
\* values of the CACHE_ENABLED environment variable, lower-cased
EnvValues == {"False", "true"}

PingOutcomes  == {"ok", "ConnectionError", "Exception"}
StoreOutcomes == {"ok", "RedisError"}

\* arguments of the arabic and roman commands
ArabicArgs == {0, 42}
RomanArgs  == { <<>>, <<"x", "l", "i", "i">>, <<"I", "I", "I", "I">> }

\* entries another client of the store may leave under the keys of the
\* arguments: under the key of 42 a wrong numeral or a number that is false
\* in Python, under the key of XLII a text that is not JSON
ExternalEntries ==
    { <<_generate_redis_cache_key([cls |-> "ArabicNumber", number |-> PyInt(42)]),
        <<"\"", "V", "I", "I", "\"">> >>,
      <<_generate_redis_cache_key([cls |-> "ArabicNumber", number |-> PyInt(42)]),
        <<"0">> >>,
      <<_generate_redis_cache_key([cls |-> "RomanNumber",
                                   number |-> PyStr(<<"X", "L", "I", "I">>)]),
        <<"{">> >> }

Init ==
    /\ stage = "fresh"
    /\ ConvIdle
    /\ InputIdle
    /\ WrapperIdle

\* process start: cache.py builds the module-level instance (RedisCache.__init__
\* and _connect, or None), cli.py copies it into its globals
Startup(env, connect) ==
    /\ stage \in {"fresh", "exited"}
    /\ CACHE_ENABLED' = env
    /\ cache' = IF CacheEnabledInEnv(env) THEN "RedisCache" ELSE "None"
    /\ client' = IF CacheEnabledInEnv(env) THEN _connect(connect) ELSE "None"
    /\ global_cache_enabled' = CliEnabledInEnv(env)
    /\ current_cache' = IF CacheEnabledInEnv(env) THEN "cache" ELSE "None"
    /\ stage' = "loaded"
    /\ UNCHANGED <<db, lastVars>>
    /\ UNCHANGED <<convVars, inputVars>>

\* cli.py: the callback that handles --no-cache
global_options(no_cache) ==
    /\ stage = "loaded"
    /\ global_cache_enabled' = ~no_cache
    /\ current_cache' = IF no_cache THEN "None" ELSE IF cache = "None" THEN "None" ELSE "cache"
    /\ stage' = "ready"
    /\ UNCHANGED <<CACHE_ENABLED, cache, client, db, lastVars>>
    /\ UNCHANGED <<convVars, inputVars>>

\* the part the arabic and roman commands share once the input value is
\* built: Converter(input=class_input), then the cache_used expression with
\* its own is_connected call
RunConverter(class_input, f) ==
    LET c == Converter(cache, client, db, class_input, f)
        asks == c.exc = "none" /\ global_cache_enabled /\ cache # "None"
        u == is_connected(c.client, f.ping3)
    IN  /\ input' = class_input
        /\ result' = c.out
        /\ raised' = c.exc
        /\ db' = c.db
        /\ client' = IF asks THEN u.client ELSE c.client
        /\ calls' = c.log

\* a ValueError from the constructor is caught and logged by the command
Rejected ==
    /\ input' = None
    /\ result' = None
    /\ raised' = "none"
    /\ calls' = <<>>
    /\ UNCHANGED <<db, client>>

\* the outcomes of the store round trips of one command: the PING and GET of
\* cache.get, the PING and SET of cache.set, the PING of the cache_used
\* expression.  A round trip that cannot take place is left at "ok".
AllPlans ==
    [ping1 : PingOutcomes, read : StoreOutcomes, ping2 : PingOutcomes,
     write : StoreOutcomes, ping3 : PingOutcomes]

FaultPlans ==
    { f \in AllPlans :
        /\ f.ping1 # "ok" => f.read = "ok"
        /\ f.ping1 = "ConnectionError" => f.ping2 = "ok"
        /\ f.ping2 # "ok" => f.write = "ok"
        /\ (f.ping1 = "ConnectionError" \/ f.ping2 = "ConnectionError") => f.ping3 = "ok" }

NoFault == [ping1 |-> "ok", read |-> "ok", ping2 |-> "ok", write |-> "ok", ping3 |-> "ok"]

\* the plans that can differ in the current process
Plans ==
    IF client = "None" THEN {NoFault}
    ELSE { f \in FaultPlans : ~global_cache_enabled => f.ping3 = "ok" }

\* cli.py: the arabic command
convert_arabic(number, f) ==
    /\ stage = "ready"
    /\ LET class_input == ArabicNumber(PyInt(number))
       IN  /\ IF class_input.exc = "none"
              THEN RunConverter([cls |-> "ArabicNumber",
                                 number |-> PyInt(class_input.number)], f)
              ELSE Rejected
    /\ stage' = "exited"
    /\ UNCHANGED <<CACHE_ENABLED, cache, global_cache_enabled, current_cache>>
    /\ UNCHANGED <<convVars, inputVars>>

\* cli.py: the roman command
convert_roman(number, f) ==
    /\ stage = "ready"
    /\ LET class_input == RomanNumber(number)
       IN  /\ IF class_input.exc = "none"
              THEN RunConverter([cls |-> "RomanNumber",
                                 number |-> PyStr(class_input.number)], f)
              ELSE Rejected
    /\ stage' = "exited"
    /\ UNCHANGED <<CACHE_ENABLED, cache, global_cache_enabled, current_cache>>
    /\ UNCHANGED <<convVars, inputVars>>

\* another client of the shared store sets a key
ExternalWrite(key, text) ==
    /\ stage \in {"fresh", "exited"}
    /\ db' = Put(db, key, text, None)
    /\ UNCHANGED <<stage, procVars, lastVars>>
    /\ UNCHANGED <<convVars, inputVars>>

Next ==
    \/ \E env \in EnvValues, connect \in PingOutcomes : Startup(env, connect)
    \/ \E no_cache \in BOOLEAN : global_options(no_cache)
    \/ \E number \in ArabicArgs, f \in Plans : convert_arabic(number, f)
    \/ \E number \in RomanArgs, f \in Plans : convert_roman(number, f)
    \/ \E e \in ExternalEntries : ExternalWrite(e[1], e[2])

Spec == Init /\ [][Next]_vars

(***************************************************************************)
(* SpecClosed: the program as the only writer of the store, with the       *)
(* flushes and deletes of its own cache object                             *)
(***************************************************************************)
\* the input values the commands build from their arguments
ValidatedArgs ==
    { [cls |-> "ArabicNumber", number |-> PyInt(ArabicNumber(PyInt(i)).number)] :
        i \in { j \in ArabicArgs : ArabicNumber(PyInt(j)).exc = "none" } }
    \cup
    { [cls |-> "RomanNumber", number |-> PyStr(RomanNumber(s).number)] :
        s \in { t \in RomanArgs : RomanNumber(t).exc = "none" } }

\* cli.py: the cache-clear command, with the outcomes of the PING of its own
\* connectivity check and of the PING and FLUSHDB of clear
cache_clear(ping, ping2, flushdb) ==
    /\ stage = "ready"
    /\ input' = None
    /\ result' = None
    /\ IF ~global_cache_enabled
       THEN raised' = "none" /\ calls' = <<>> /\ UNCHANGED <<db, client>>
       ELSE IF current_cache = "None"
       THEN raised' = "AttributeError" /\ calls' = <<>> /\ UNCHANGED <<db, client>>
       ELSE LET c == is_connected(client, ping)
                r == RedisCache_clear(c.client, db, ping2, flushdb)
            IN  IF ~c.ret
                THEN /\ raised' = "none"
                     /\ calls' = <<>>
                     /\ client' = c.client
                     /\ UNCHANGED db
                ELSE /\ raised' = r.exc
                     /\ calls' = <<Entry("clear", "called", None)>> \o r.sent
                     /\ client' = r.client
                     /\ db' = r.db
    /\ stage' = "exited"
    /\ UNCHANGED <<CACHE_ENABLED, cache, global_cache_enabled, current_cache>>
    /\ UNCHANGED <<convVars, inputVars>>

\* a caller in the process deletes the entry of one input: cache.delete(key)
cache_delete(key, ping, del) ==
    /\ stage = "ready"
    /\ cache # "None"
    /\ LET r == RedisCache_delete(client, db, key, ping, del)
       IN  /\ raised' = r.exc
           /\ calls' = <<Entry("delete", "called", PyStr(key))>> \o r.sent
           /\ client' = r.client
           /\ db' = r.db
    /\ input' = None
    /\ result' = None
    /\ stage' = "exited"
    /\ UNCHANGED <<CACHE_ENABLED, cache, global_cache_enabled, current_cache>>
    /\ UNCHANGED <<convVars, inputVars>>

NextClosed ==
    \/ \E env \in EnvValues, connect \in PingOutcomes : Startup(env, connect)
    \/ \E no_cache \in BOOLEAN : global_options(no_cache)
    \/ \E number \in ArabicArgs, f \in Plans : convert_arabic(number, f)
    \/ \E number \in RomanArgs, f \in Plans : convert_roman(number, f)
    \/ \E ping \in PingOutcomes, ping2 \in PingOutcomes, flushdb \in StoreOutcomes :
            cache_clear(ping, ping2, flushdb)
    \/ \E x \in ValidatedArgs, ping \in PingOutcomes, del \in StoreOutcomes :
            cache_delete(_generate_redis_cache_key(x), ping, del)

SpecClosed == Init /\ [][NextClosed]_vars

(***************************************************************************)
(* SpecKey: the cache keys of two inputs                                   *)
(***************************************************************************)
KeyAlphabet == {"I", "V", "i", "\n"}

\* the raw arguments of the two constructors
KeyArgs ==
    { [cls |-> "RomanNumber", number |-> PyStr(s)] :
        s \in UNION { [1..k -> KeyAlphabet] : k \in 0..MaxKeyLen } }
    \cup
    { [cls |-> "ArabicNumber", number |-> PyInt(i)] : i \in (MinArabic - 1)..MaxKeyInt }
    \cup
    { [cls |-> "ArabicNumber", number |-> PyFloat(2 * MinArabic + 1)] }

\* RomanNumber(number=...) or ArabicNumber(number=...)
Construct(arg) ==
    IF arg.cls = "RomanNumber"
    THEN LET r == RomanNumber(arg.number.v)
         IN  [cls |-> arg.cls, number |-> PyStr(r.number), exc |-> r.exc]
    ELSE LET r == ArabicNumber(arg.number)
         IN  [cls |-> arg.cls, number |-> PyInt(r.number), exc |-> r.exc]

InitKey ==
    /\ stage = "pair"
    /\ raw \in KeyArgs \X KeyArgs
    /\ obj = None
    /\ err = "none"
    /\ ConvIdle
    /\ WrapperIdle

\* both input values are constructed
ConstructPair ==
    /\ stage = "pair"
    /\ obj' = <<Construct(raw[1]), Construct(raw[2])>>
    /\ err' = IF Construct(raw[1]).exc = "none" THEN Construct(raw[2]).exc
              ELSE Construct(raw[1]).exc
    /\ stage' = "built"
    /\ UNCHANGED raw
    /\ UNCHANGED convVars
    /\ UNCHANGED wrapperVars

\* a Converter of each computes its cache key
GenerateKeys ==
    /\ stage = "built"
    /\ err = "none"
    /\ calls' = [i \in 1..2 |->
                    Entry("_generate_redis_cache_key", "ok",
                          PyStr(_generate_redis_cache_key(obj[i])))]
    /\ stage' = "keys"
    /\ UNCHANGED <<CACHE_ENABLED, cache, client, global_cache_enabled, current_cache,
                   db, input, result, raised>>
    /\ UNCHANGED convVars
    /\ UNCHANGED inputVars

NextKey == ConstructPair \/ GenerateKeys

SpecKey == InitKey /\ [][NextKey]_vars

(***************************************************************************)
(* SpecCache: the methods of one RedisCache object, called in any order     *)
(***************************************************************************)
\* keys handed to get, set and delete: one of the converter's namespace and
\* one outside it
CacheKeys ==
    { _generate_redis_cache_key([cls |-> "ArabicNumber", number |-> PyInt(42)]),
      <<"k">> }

\* values and times to live handed to set
CacheValues == { PyStr(<<"X", "L", "I", "I">>), None }
CacheExpires == { None, PyInt(60) }

\* patterns handed to get_keys: its default and the one cli.py passes
CachePatterns ==
    { <<"*">>,
      <<"e", "a", "s", "y", "c", "o", "n", "v", "e", "r", "t", ":", "*">> }

\* RedisCache() with CACHE_ENABLED on, and an empty store
InitCache ==
    /\ stage = "object"
    /\ CACHE_ENABLED = "true"
    /\ cache = "RedisCache"
    /\ client \in { _connect(connect) : connect \in PingOutcomes }
    /\ global_cache_enabled = CliEnabledInEnv("true")
    /\ current_cache = "cache"
    /\ db = <<>>
    /\ input = None
    /\ result = None
    /\ raised = "none"
    /\ calls = <<>>
    /\ ConvIdle
    /\ InputIdle

\* a method call returns: calls holds the call and then the commands it sent
Returns(op, arg, ret, exc, cl, store, sent) ==
    /\ stage = "object"
    /\ result' = ret
    /\ raised' = exc
    /\ client' = cl
    /\ db' = store
    /\ calls' = <<Entry(op, "called", arg)>> \o sent
    /\ UNCHANGED <<stage, CACHE_ENABLED, cache, global_cache_enabled, current_cache, input>>
    /\ UNCHANGED <<convVars, inputVars>>

CallIsConnected(ping) ==
    LET r == is_connected(client, ping)
    IN  Returns("is_connected", None, PyBool(r.ret), "none", r.client, db,
                Pings(client, ping))

CallGet(key, ping, read) ==
    LET r == RedisCache_get(client, db, key, ping, read)
    IN  Returns("get", PyStr(key), r.ret, r.exc, r.client, db,
                Pings(client, ping) \o
                    IF r.log.res = "unconnected" THEN <<>>
                    ELSE <<Entry("GET", read, None)>>)

CallSet(key, value, expire, ping, write) ==
    LET r == RedisCache_set(client, db, key, value, expire, ping, write)
    IN  Returns("set", PyStr(key), PyBool(r.ret), r.exc, r.client, r.db,
                Pings(client, ping) \o
                    IF r.log.res \in {"unconnected", "none_value"} THEN <<>>
                    ELSE <<Entry("SET", write, None)>>)

CallDelete(key, ping, del) ==
    LET r == RedisCache_delete(client, db, key, ping, del)
    IN  Returns("delete", PyStr(key), r.ret, r.exc, r.client, r.db, r.sent)

CallClear(ping, flushdb) ==
    LET r == RedisCache_clear(client, db, ping, flushdb)
    IN  Returns("clear", None, r.ret, r.exc, r.client, r.db, r.sent)

CallGetKeys(pattern, ping, keys) ==
    LET r == get_keys(client, db, pattern, ping, keys)
    IN  Returns("get_keys", PyStr(pattern), r.ret, r.exc, r.client, r.db, r.sent)

CallGetKeyCount(ping, dbsize) ==
    LET r == get_key_count(client, db, ping, dbsize)
    IN  Returns("get_key_count", None, r.ret, r.exc, r.client, r.db, r.sent)

CallReconnect(connect, ping) ==
    LET r == reconnect(client, connect, ping)
    IN  Returns("reconnect", None, r.ret, "none", r.client, db, r.sent)

\* a new process builds its own object: RedisCache.__init__ and _connect
NewObject(connect) ==
    Returns("__init__", None, None, "none", _connect(connect), db,
            <<Entry("PING", connect, None)>>)

NextCache ==
    \/ \E ping \in PingOutcomes : CallIsConnected(ping)
    \/ \E key \in CacheKeys, ping \in PingOutcomes, read \in StoreOutcomes :
            CallGet(key, ping, read)
    \/ \E key \in CacheKeys, value \in CacheValues, expire \in CacheExpires,
          ping \in PingOutcomes, write \in StoreOutcomes :
            CallSet(key, value, expire, ping, write)
    \/ \E key \in CacheKeys, ping \in PingOutcomes, del \in StoreOutcomes :
            CallDelete(key, ping, del)
    \/ \E ping \in PingOutcomes, flushdb \in StoreOutcomes : CallClear(ping, flushdb)
    \/ \E pattern \in CachePatterns, ping \in PingOutcomes, keys \in StoreOutcomes :
            CallGetKeys(pattern, ping, keys)
    \/ \E ping \in PingOutcomes, dbsize \in StoreOutcomes : CallGetKeyCount(ping, dbsize)
    \/ \E connect \in PingOutcomes, ping \in PingOutcomes : CallReconnect(connect, ping)
    \/ \E connect \in PingOutcomes : NewObject(connect)

SpecCache == InitCache /\ [][NextCache]_vars

(***************************************************************************)
(* Reference notions the properties are stated with                        *)
(***************************************************************************)
\* the numeral of one decimal digit d written with the letters of its place
DigitNumeral(d, one, five, ten) ==
    CASE d = 0 -> <<>>
      [] d \in 1..3 -> [i \in 1..d |-> one]
      [] d = 4 -> <<one, five>>
      [] d = 5 -> <<five>>
      [] d \in 6..8 -> <<five>> \o [i \in 1..(d - 5) |-> one]
      [] d = 9 -> <<one, ten>>

\* the standard subtractive-notation numeral of k, place by place
StandardNumeral(k) ==
    DigitNumeral(k \div 1000, "M", "-", "-")
        \o DigitNumeral((k \div 100) % 10, "C", "D", "M")
        \o DigitNumeral((k \div 10) % 10, "X", "L", "C")
        \o DigitNumeral(k % 10, "I", "V", "X")

CanonicalNumerals == { StandardNumeral(k) : k \in 1..3999 }

LetterValue(c) ==
    CASE c = "I" -> 1 [] c = "V" -> 5 [] c = "X" -> 10 [] c = "L" -> 50
      [] c = "C" -> 100 [] c = "D" -> 500 [] c = "M" -> 1000 [] OTHER -> 0

NoFourInRow(s) ==
    \A i \in 1..(Len(s) - 3) : ~(s[i] = s[i + 1] /\ s[i] = s[i + 2] /\ s[i] = s[i + 3])

SubtractivePairs ==
    { <<"I", "V">>, <<"I", "X">>, <<"X", "L">>, <<"X", "C">>, <<"C", "D">>, <<"C", "M">> }

OnlyCanonicalPairs(s) ==
    \A i \in 1..(Len(s) - 1) :
        LetterValue(s[i]) < LetterValue(s[i + 1]) => <<s[i], s[i + 1]>> \in SubtractivePairs

(***************************************************************************)
(* Properties                                                              *)
(***************************************************************************)

\* C1: for every n in [1, 3999], convert_to_arabic applied to the string
\* convert_to_roman gives for n returns n.
C1_RoundTrip == stage = "arabic" => arabic = n

C1_Witness ==
    /\ stage = "arabic"
    /\ n = 3724
    /\ roman = <<"M", "M", "M", "D", "C", "C", "X", "X", "I", "V">>
    /\ arabic = 3724

\* C8: for every n in [1, 3999], the output of convert_to_roman has no four
\* identical letters in a row, and a smaller letter stands before a larger
\* one only in the pairs IV, IX, XL, XC, CD, CM.
C8_CanonicalForm ==
    stage \in {"roman", "arabic"} =>
        /\ roman # <<>>
        /\ NoFourInRow(roman)
        /\ OnlyCanonicalPairs(roman)

C8_Witness ==
    /\ stage = "roman"
    /\ n = 3999
    /\ roman = <<"M", "M", "M", "C", "M", "X", "C", "I", "X">>

\* C7: constructing a Roman value from the empty string raises the
\* invalid-format error (ValueError), so the empty string is never converted.
C7_EmptyRejected ==
    (stage # "raw" /\ raw = PyStr(<<>>)) => (err = "ValueError" /\ stage # "converted")

\* C9: every string that is not a canonical Roman numeral is rejected by the
\* validation, so that RomanNumber construction raises. Stated for the
\* strings of at least one character; the empty string is the case of C7.
C9_RejectsNonCanonical ==
    (stage # "raw" /\ raw.t = "str" /\ raw.v # <<>>
        /\ upper(raw.v) \notin CanonicalNumerals)
    => err = "ValueError"

\* C10: ArabicNumber construction from an integer n succeeds if and only if
\* 1 <= n <= 3999; a failure is the range error (ValueError) and on success
\* the stored value equals n.
C10_RangeBoundaries ==
    (stage = "constructed" /\ raw.t = "int") =>
        /\ (err = "none") <=> (1 <= raw.v /\ raw.v <= 3999)
        /\ err \in {"none", "ValueError"}
        /\ err = "none" => obj = PyInt(raw.v)

C10_Witness ==
    /\ stage = "constructed"
    /\ raw = PyInt(3999)
    /\ err = "none"
    /\ obj = PyInt(3999)

(***************************************************************************)
(* Properties of the cache-lookaside wrapper                               *)
(***************************************************************************)
\* a conversion command has run on an input that passed validation
Converted == stage = "exited" /\ input # None

AlgorithmNames == {"convert_to_arabic", "convert_to_roman"}

RanAlgorithm(log) == \E i \in 1..Len(log) : log[i].op \in AlgorithmNames

HasCall(log, op, res) == \E i \in 1..Len(log) : log[i].op = op /\ log[i].res = res

\* a GET or a SET was sent to the store
TouchedStore(log) ==
    \E i \in 1..Len(log) : log[i].op \in {"get", "set"} /\ log[i].res # "unconnected"

\* what the algorithm gives for the input, computed directly
DirectResult(inp) ==
    IF inp.cls = "RomanNumber" THEN PyInt(convert_to_arabic(inp.number.v))
    ELSE PyStr(convert_to_roman(inp.number.v))

\* C2: with a cache object in place, a conversion of a validated input never
\* raises and yields a result, whatever the store does on any round trip.
C2_FailSoft ==
    (Converted /\ cache = "RedisCache") => (raised = "none" /\ result # None)

\* C3: when caching is disabled for the invocation (--no-cache, or the
\* CACHE_ENABLED toggle off), a conversion command sends no GET and no SET
\* and returns the directly computed result.
C3_DisabledBypassesStore ==
    (Converted /\ (~global_cache_enabled \/ ~CacheEnabledInEnv(CACHE_ENABLED)))
    => /\ raised = "none"
       /\ result = DirectResult(input)
       /\ ~TouchedStore(calls)

\* C4: when the SET of the write-back raises after the connectivity check
\* passed, nothing is raised out of the Converter and the computed result is
\* its output.
C4_WriteFailureSwallowed ==
    (Converted /\ HasCall(calls, "set", "RedisError"))
    => (raised = "none" /\ result = DirectResult(input))

\* the last command missed, computed and wrote back, and the entry it wrote
\* is still in the store
MissedAndWroteBack ==
    /\ input # None
    /\ raised = "none"
    /\ Len(calls) = 3
    /\ calls[1] = Entry("get", "miss", None)
    /\ calls[2].op \in AlgorithmNames
    /\ calls[3] = Entry("set", "ok", result)
    /\ _generate_redis_cache_key(input) \in DOMAIN db
    /\ db[_generate_redis_cache_key(input)].text = json_dumps(result)

\* every round trip of the command reached the store and none failed
StoreReachable(log) ==
    /\ Len(log) >= 1
    /\ \A i \in 1..Len(log) : log[i].res \in {"hit", "miss", "ok"}

\* C5: with a reachable store, a second conversion of the same validated input
\* after one that missed and wrote back yields the same output and does not
\* run the conversion algorithm again.
C5_SecondServedFromStore ==
    [][ ( /\ MissedAndWroteBack
          /\ stage = "ready" /\ stage' = "exited"
          /\ input' = input
          /\ raised' = "none"
          /\ StoreReachable(calls') )
        => (result' = result /\ ~RanAlgorithm(calls')) ]_vars

\* C6: when the read returns the entry stored under the input's key, the
\* Converter's output is that stored value and no algorithm is run.
C6_HitServedVerbatim ==
    Converted =>
        \A i \in 1..Len(calls) :
            (calls[i].op = "get" /\ calls[i].res = "hit")
            => (result = calls[i].val /\ ~RanAlgorithm(calls))

(***************************************************************************)
(* Properties of the administrative store operations                       *)
(***************************************************************************)
AdminOps == {"is_connected", "get_keys", "delete", "clear", "get_key_count"}

\* what each administrative operation returns when it cannot do its work
FailSoftValue(op) ==
    CASE op = "is_connected" -> PyBool(FALSE)
      [] op = "get_keys" -> PyList({})
      [] op = "delete" -> PyBool(FALSE)
      [] op = "clear" -> PyBool(FALSE)
      [] op = "get_key_count" -> PyInt(0)

\* the call in log found no client handle, or one of its commands failed
StoreFailed(log) ==
    \/ Len(log) = 1
    \/ \E i \in 2..Len(log) : log[i].res # "ok"

\* C11: an administrative store operation (is_connected, get_keys, delete,
\* clear, get_key_count) that finds the store unreachable or failing raises
\* nothing, returns its empty value (False, [], False, False, 0) and leaves
\* the store contents unchanged.
C11_AdminFailSoft ==
    [][ (stage' = "object" /\ Len(calls') >= 1 /\ calls'[1].op \in AdminOps
            /\ StoreFailed(calls'))
        => /\ raised' = "none"
           /\ result' = FailSoftValue(calls'[1].op)
           /\ db' = db ]_vars

C11_Witness ==
    /\ stage = "object"
    /\ calls = <<Entry("clear", "called", None), Entry("PING", "ok", None),
                 Entry("FLUSHDB", "RedisError", None)>>
    /\ result = PyBool(FALSE)
    /\ raised = "none"
    /\ db # <<>>

(***************************************************************************)
(* Properties of the cache key                                             *)
(***************************************************************************)
Namespace == <<"e", "a", "s", "y", "c", "o", "n", "v", "e", "r", "t", ":">>

LowercasedName(cls) ==
    IF cls = "RomanNumber"
    THEN <<"r", "o", "m", "a", "n", "n", "u", "m", "b", "e", "r">>
    ELSE <<"a", "r", "a", "b", "i", "c", "n", "u", "m", "b", "e", "r">>

\* key is easyconvert:<lowercased type name>:<text>, where text is the stored
\* string itself or the decimal digits of the stored number
KeyForm(x, key) ==
    LET head == Namespace \o LowercasedName(x.cls) \o <<":">>
        text == SubSeq(key, Len(head) + 1, Len(key))
    IN  /\ Len(key) >= Len(head)
        /\ SubSeq(key, 1, Len(head)) = head
        /\ x.number.t = "str" => text = x.number.v
        /\ x.number.t = "int" => (IsJsonNat(text) /\ nat_of(text, 0) = x.number.v)

\* C12: the keys of two validated inputs are equal exactly when the inputs
\* have the same type and the same stored value; Roman arguments that differ
\* only in letter case get the same key; every key has the form
\* easyconvert:<lowercased type name>:<string of the stored value>.
C12_KeyOfInputAlone ==
    stage = "keys" =>
        /\ (calls[1].val = calls[2].val)
             <=> (obj[1].cls = obj[2].cls /\ obj[1].number = obj[2].number)
        /\ (/\ raw[1].cls = "RomanNumber"
            /\ raw[2].cls = "RomanNumber"
            /\ upper(raw[1].number.v) = upper(raw[2].number.v))
           => calls[1].val = calls[2].val
        /\ KeyForm(obj[1], calls[1].val.v)
        /\ KeyForm(obj[2], calls[2].val.v)

C12_Witness ==
    /\ stage = "keys"
    /\ raw[1].number = PyStr(<<"i", "V">>)
    /\ raw[2].number = PyStr(<<"I", "V">>)
    /\ calls[1].val = PyStr(Namespace \o LowercasedName("RomanNumber") \o <<":", "I", "V">>)
    /\ calls[2].val = calls[1].val

(***************************************************************************)
(* Properties of the steps of one conversion request                       *)
(***************************************************************************)
\* the positions in log of the calls of the methods in ops
Positions(log, ops) == { i \in 1..Len(log) : log[i].op \in ops }

\* C13: a conversion request of a validated input makes exactly one cache
\* lookup, first; then at most one run of a conversion algorithm, only if the
\* lookup reported no hit; then at most one cache write, only after a run;
\* and no write at all on a hit.
C13_LookupConvertWrite ==
    Converted =>
        LET lookups == Positions(calls, {"get"})
            runs    == Positions(calls, AlgorithmNames)
            writes  == Positions(calls, {"set"})
        IN  /\ lookups = {1}
            /\ Cardinality(runs) <= 1
            /\ Cardinality(writes) <= 1
            /\ \A i \in runs : i = 2 /\ calls[1].res # "hit"
            /\ \A j \in writes : \E i \in runs : i < j
            /\ calls[1].res = "hit" => writes = {}

(***************************************************************************)
(* Properties of a cache object that lost its connection                   *)
(***************************************************************************)
\* what each method returns when there is no client handle
NoHandleValue(op) ==
    CASE op = "get" -> None
      [] op = "set" -> PyBool(FALSE)
      [] OTHER -> FailSoftValue(op)

\* C14: within a call a failed command is never followed by another command;
\* on a cache object whose client handle has been dropped, a call of get,
\* set, delete, clear, get_keys (and is_connected, get_key_count) sends no
\* command, returns miss / False / empty and leaves the handle dropped; only
\* reconnect or a new process's object sets the handle again.
C14_NoRetryAfterLoss ==
    [][ (stage' = "object" /\ Len(calls') >= 1)
        => /\ \A i \in 2..(Len(calls') - 1) : calls'[i].res = "ok"
           /\ (client = "None" /\ calls'[1].op \notin {"reconnect", "__init__"})
              => /\ Len(calls') = 1
                 /\ client' = "None"
                 /\ raised' = "none"
                 /\ result' = NoHandleValue(calls'[1].op)
                 /\ db' = db ]_vars

C14_Witness ==
    /\ stage = "object"
    /\ client = "None"
    /\ \E key \in DOMAIN db : calls = <<Entry("get", "called", PyStr(key))>>
    /\ result = None
    /\ raised = "none"

(***************************************************************************)
(* Properties of the store entries a conversion request touches            *)
(***************************************************************************)
\* C15: a conversion request of a validated input leaves every entry under a
\* key other than the input's own as it was, never deletes the entry under
\* its own key, neither overwrites it nor sends a SET when its lookup hit,
\* and writes entries without a time to live.
C15_TouchesOwnKeyOnly ==
    [][ (stage = "ready" /\ stage' = "exited" /\ input' # None)
        => LET own == _generate_redis_cache_key(input')
           IN  /\ \A k \in (DOMAIN db \cup DOMAIN db') \ {own} :
                     k \in DOMAIN db /\ k \in DOMAIN db' /\ db'[k] = db[k]
               /\ own \in DOMAIN db => own \in DOMAIN db'
               /\ HasCall(calls', "get", "hit")
                  => (db' = db /\ ~HasCall(calls', "set", "ok"))
               /\ \A k \in DOMAIN db' :
                     (k \notin DOMAIN db \/ db'[k] # db[k]) => db'[k].expire = None ]_vars

(***************************************************************************)
(* Properties of the greedy descent                                        *)
(***************************************************************************)
\* the magnitude of a token, read off its letters
TokenMagnitude(token) ==
    IF Len(token) = 1 THEN LetterValue(token[1])
    ELSE LetterValue(token[2]) - LetterValue(token[1])

RECURSIVE SumMagnitudes(_)
SumMagnitudes(tokens) ==
    IF tokens = <<>> THEN 0
    ELSE TokenMagnitude(Head(tokens)) + SumMagnitudes(Tail(tokens))

\* C16: for every n in [1, 3999] the greedy descent of convert_to_roman runs
\* over 13 breakpoints in strictly descending order, ends with the remainder
\* 0, and the magnitudes of the tokens it appended, joined into the output,
\* add up to n.
C16_GreedyExhaustsInput ==
    stage \in {"roman", "arabic"} =>
        LET g == GreedyResult(n)
        IN  /\ Len(SortedItems) = 13
            /\ \A i \in 1..(Len(SortedItems) - 1) : SortedItems[i] > SortedItems[i + 1]
            /\ g.input_number = 0
            /\ SumMagnitudes(g.roman_numerals) = n
            /\ roman = Join(g.roman_numerals)

C16_Witness ==
    /\ stage = "roman"
    /\ n = 3888
    /\ Len(GreedyResult(n).roman_numerals) = 15
    /\ roman = <<"M", "M", "M", "D", "C", "C", "C", "L", "X", "X", "X", "V", "I", "I", "I">>

(***************************************************************************)
(* Properties of the conversion of accepted strings                        *)
(***************************************************************************)
\* C18: for every string RomanNumber accepts, convert_to_arabic of the stored
\* (upper-cased) string is a number in [1, 3999], and convert_to_roman of
\* that number gives the stored string back.
C18_AcceptedRoundTrip ==
    stage = "converted" =>
        /\ arabic \in 1..3999
        /\ convert_to_roman(arabic) = obj.v
        /\ obj.v = upper(raw.v)

(***************************************************************************)
(* Properties of the store the program alone writes                        *)
(***************************************************************************)
\* C17: with the program as the only writer of a store that started empty,
\* every entry is stored under the key of a validated input and holds the
\* result the conversion algorithm gives for that input, whatever outages,
\* deletes and flushes came between; and a result served from the store
\* without running the algorithm equals the directly computed one.
C17_StoreHoldsResults ==
    /\ \A k \in DOMAIN db :
          \E x \in ValidatedArgs :
              /\ k = _generate_redis_cache_key(x)
              /\ json_loads(db[k].text) = DirectResult(x)
    /\ (Converted /\ HasCall(calls, "get", "hit") /\ ~RanAlgorithm(calls))
       => (raised = "none" /\ result = DirectResult(input))

C17_Witness ==
    /\ Converted
    /\ calls = <<Entry("get", "hit", PyInt(42))>>
    /\ result = PyInt(42)
    /\ Cardinality(DOMAIN db) = 3

====
